---- MODULE Spec2Model ----
(***************************************************************************)
(* Model of Extractor.py: the serial Collector (read_from_serial_port),    *)
(* the MIDI Encoder (convert_characters_to_midi) and the command-line      *)
(* entry point.                                                            *)
(*                                                                         *)
(* A Python str is a sequence of characters; a character is a one-element  *)
(* name ("a", "1", ...).  Characters outside ASCII are named by their code *)
(* point: "U00B2" is SUPERSCRIPT TWO, "U0663" is ARABIC-INDIC DIGIT THREE, *)
(* "U0131" is LATIN SMALL LETTER DOTLESS I, "U00DF" is LATIN SMALL LETTER  *)
(* SHARP S.  Times inside the MIDI track are counted in half beats, so the *)
(* source's 0.5 beat is 1.                                                 *)
(***************************************************************************)
EXTENDS Integers, Sequences, FiniteSets, TLC

\* ------------------------------------------------------------------ bounds
MaxLen == 3
MaxBytes == 3
MaxDuration == 2

\* ------------------------------------------------- Python str primitives
LowerLetters ==
  <<"a","b","c","d","e","f","g","h","i","j","k","l","m",
    "n","o","p","q","r","s","t","u","v","w","x","y","z">>

UpperLetters ==
  <<"A","B","C","D","E","F","G","H","I","J","K","L","M",
    "N","O","P","Q","R","S","T","U","V","W","X","Y","Z">>

AsciiDigits == {"0","1","2","3","4","5","6","7","8","9"}

\* characters c with c.isdigit() true: the ASCII digits and every other
\* character of Unicode category Nd/No with a digit value
DigitChars == AsciiDigits \cup {"U00B2", "U0663"}

\* characters c with c.isalpha() true
AlphaChars ==
  {LowerLetters[i] : i \in 1..26} \cup {UpperLetters[i] : i \in 1..26}
    \cup {"U0131", "U00DF"}

\* str.upper() of a single character: a str, possibly longer than one
UpperChar(c) ==
  IF \E i \in 1..26 : LowerLetters[i] = c
    THEN <<UpperLetters[CHOOSE i \in 1..26 : LowerLetters[i] = c]>>
    ELSE IF c = "U0131" THEN <<"I">>
    ELSE IF c = "U00DF" THEN <<"S","S">>
    ELSE <<c>>

RECURSIVE upper(_)
upper(s) == IF s = <<>> THEN <<>> ELSE UpperChar(Head(s)) \o upper(Tail(s))

isdigit(s) == Len(s) > 0 /\ \A i \in 1..Len(s) : s[i] \in DigitChars

isalpha(s) == Len(s) > 0 /\ \A i \in 1..Len(s) : s[i] \in AlphaChars

\* Python's  s in t  on two strs: substring containment
StrIn(s, t) ==
  \E k \in 0..(Len(t) - Len(s)) : SubSeq(t, k + 1, k + Len(s)) = s

ABCDEFGHI == <<"A","B","C","D","E","F","G","H","I">>

\* bytes.decode('utf-8', errors='ignore') of ONE byte: an ASCII byte gives
\* its character, any byte >= 0x80 is an incomplete sequence and is dropped
AsciiChr(b) ==
  CASE b = 48 -> "0" [] b = 49 -> "1" [] b = 57 -> "9"
    [] b = 65 -> "A" [] b = 97 -> "a" [] b = 105 -> "i"
    [] b = 106 -> "j" [] b = 32 -> " "

decode(b) == IF b < 128 THEN <<AsciiChr(b)>> ELSE <<>>

\* ---------------------------------------------------------------- Encoder
\* the body of the filter loop for one character: what is appended
EncoderKeepLowerOnly(char) ==
  IF isdigit(<<char>>) /\ char # "0" THEN <<char>>
  ELSE IF StrIn(<<char>>, <<"a","b","c","d","e","f","g","h","i">>)
    THEN <<upper(<<char>>)[1]>>
  ELSE <<>>

\* upper(<<char>>) is a one-character str whenever it is found in
\* 'ABCDEFGHI' (no character upper-cases to a longer substring of it)
EncoderKeep(char) ==
  IF isdigit(<<char>>) /\ char # "0" THEN <<char>>
  ELSE IF StrIn(upper(<<char>>), ABCDEFGHI) THEN <<upper(<<char>>)[1]>>
  ELSE <<>>

RECURSIVE FilterChars(_)
FilterChars(s) ==
  IF s = <<>> THEN <<>> ELSE EncoderKeep(Head(s)) \o FilterChars(Tail(s))

note_mapping_typo ==
  [c \in {"1","2","3","4","5","6","7","8","9",
          "A","B","C","D","E","F","G","H","I"} |->
    CASE c = "1" -> 83 [] c = "2" -> 82 [] c = "3" -> 81 [] c = "4" -> 79
      [] c = "5" -> 78 [] c = "6" -> 77 [] c = "7" -> 76 [] c = "8" -> 74
      [] c = "9" -> 75 [] c = "A" -> 72 [] c = "B" -> 71 [] c = "C" -> 70
      [] c = "D" -> 68 [] c = "E" -> 67 [] c = "F" -> 66 [] c = "G" -> 65
      [] c = "H" -> 64 [] c = "I" -> 62]

note_mapping ==
  [c \in {"1","2","3","4","5","6","7","8","9",
          "A","B","C","D","E","F","G","H","I"} |->
    CASE c = "1" -> 83 [] c = "2" -> 82 [] c = "3" -> 81 [] c = "4" -> 79
      [] c = "5" -> 78 [] c = "6" -> 77 [] c = "7" -> 76 [] c = "8" -> 74
      [] c = "9" -> 75 [] c = "A" -> 72 [] c = "B" -> 71 [] c = "C" -> 70
      [] c = "D" -> 69 [] c = "E" -> 67 [] c = "F" -> 66 [] c = "G" -> 65
      [] c = "H" -> 64 [] c = "I" -> 62]

\* in half beats: time = 0, duration = 0.5 beat
time == 0
duration == 1
volume == 100
DefaultTempo == 120
DefaultInstrument == 73

\* the addNote loop over enumerate(valid_chars), from index i (0-based) on
RECURSIVE AddNotes(_, _)
AddNotes(vc, i) ==
  IF i >= Len(vc) THEN <<>>
  ELSE (IF vc[i + 1] \in DOMAIN note_mapping
          THEN <<[pitch |-> note_mapping[vc[i + 1]],
                  start |-> time + i * duration,
                  dur |-> duration,
                  vol |-> volume]>>
          ELSE <<>>) \o AddNotes(vc, i + 1)

None == [isNone |-> TRUE, val |-> <<>>]
Some(v) == [isNone |-> FALSE, val |-> v]

NoFile == [written |-> FALSE, name |-> "", tempo |-> 0, instrument |-> 0,
           notes |-> <<>>]

\* ------------------------------------------------------------------ inputs
EncChars == {"0", "1", "2", "a", "H", "j", "U00B2", "U0131", "U00DF"}

hello123world ==
  <<"h","e","l","l","o","1","2","3","w","o","r","l","d">>

Scenarios ==
  {hello123world, <<"a","B","c","D">>, <<"x","y","z">>,
   <<"1","U0663","9","I">>}

Inputs == UNION {[1..n -> EncChars] : n \in 0..MaxLen} \cup Scenarios

Tempos == {DefaultTempo, 90}
Instruments == {DefaultInstrument, 0}
Bytes == {48, 49, 97, 106, 255}
FileNames == {"", "song.mid"}

\* ------------------------------------------------------------------- state
VARIABLES
  entry,            \* "cli": run from the command line; "encoder": a direct
                    \* call of convert_characters_to_midi
  pc,               \* position of the run
  args,             \* the parsed command line
  ser_open,         \* the serial port handle is open
  open_calls,       \* number of serial.Serial(...) calls made
  elapsed,          \* time.time() - start_time at the last reading, seconds
  next_update,      \* next_update - start_time
  shown,            \* the count printed by the last progress report
  received,         \* the bytes read from the port so far
  collected_data,
  chars_read,
  output_filename,
  char_string,      \* convert_characters_to_midi's arguments
  tempo,
  instrument,
  convert_called,
  valid_chars,
  file,             \* the output file
  chars,            \* what convert_characters_to_midi returned
  result,           \* what read_from_serial_port returned
  reported          \* the last failure message printed

vars ==
  <<entry, pc, args, ser_open, open_calls, elapsed, next_update, shown,
    received, collected_data, chars_read, output_filename, char_string,
    tempo, instrument, convert_called, valid_chars, file, chars, result,
    reported>>

collector_vars ==
  <<ser_open, open_calls, elapsed, next_update, shown, received,
    collected_data, chars_read>>

encoder_vars == <<char_string, tempo, instrument, convert_called,
                  valid_chars, file, chars>>

DefaultArgs ==
  [tempo |-> DefaultTempo, instrument |-> DefaultInstrument, duration |-> 0]

InitCommon ==
  /\ ser_open = FALSE /\ open_calls = 0
  /\ elapsed = 0 /\ next_update = 0 /\ shown = 0
  /\ received = <<>> /\ collected_data = <<>> /\ chars_read = 0
  /\ valid_chars = <<>> /\ file = NoFile
  /\ chars = None /\ result = None /\ reported = "none"

\* python Extractor.py [--tempo T] [--instrument I] [--duration D]
InitCli ==
  /\ entry = "cli" /\ pc = "main"
  /\ args = DefaultArgs
  /\ output_filename = ""
  /\ char_string = <<>> /\ tempo = DefaultTempo
  /\ instrument = DefaultInstrument
  /\ convert_called = FALSE

\* convert_characters_to_midi(char_string, output_filename, tempo, instrument)
InitEncoder ==
  /\ entry = "encoder" /\ pc = "convert"
  /\ args = DefaultArgs
  /\ output_filename = "output.mid"
  /\ char_string \in Inputs
  /\ tempo \in Tempos
  /\ instrument \in Instruments
  /\ convert_called = TRUE

Init == InitCommon /\ (InitCli \/ InitEncoder)

\* ------------------------------------------------------------ command line
ParseArgs ==
  /\ pc = "main"
  /\ \E t \in Tempos, n \in Instruments, d \in 0..MaxDuration :
       args' = [tempo |-> t, instrument |-> n, duration |-> d]
  /\ pc' = "open"
  /\ UNCHANGED <<entry, output_filename, result, reported>>
  /\ UNCHANGED collector_vars
  /\ UNCHANGED encoder_vars

\* ---------------------------------------------------------------- Collector
read_duration == args.duration

\* except serial.SerialException: report, return None; the handler saves
\* nothing of what was collected
SerialExceptionHandlerSavesPartial ==
  /\ reported' = "transport"
  /\ result' = result
  /\ pc' = "collected"

SerialExceptionHandler ==
  /\ reported' = "transport"
  /\ result' = None
  /\ pc' = "done"

OpenPort ==
  /\ pc = "open"
  /\ open_calls' = open_calls + 1
  /\ ser_open' = TRUE
  /\ pc' = "reset"
  /\ UNCHANGED <<entry, args, elapsed, next_update, shown, received,
                 collected_data, chars_read, output_filename, result,
                 reported>>
  /\ UNCHANGED encoder_vars

OpenPortFails ==
  /\ pc = "open"
  /\ open_calls' = open_calls + 1
  /\ SerialExceptionHandler
  /\ UNCHANGED <<entry, args, ser_open, elapsed, next_update, shown,
                 received, collected_data, chars_read, output_filename>>
  /\ UNCHANGED encoder_vars

\* reset_input_buffer (which raises only on a port that is not open), then
\* the initialisation of the loop's variables
ResetInputBuffer ==
  /\ pc = "reset"
  /\ elapsed' = 0
  /\ next_update' = 1
  /\ collected_data' = <<>>
  /\ chars_read' = 0
  /\ pc' = "loop"
  /\ UNCHANGED <<entry, args, ser_open, open_calls, shown, received,
                 output_filename, result, reported>>
  /\ UNCHANGED encoder_vars

\* the progress report at the top of an iteration entered at time e
UpdateProgress(e) ==
  IF e >= next_update
    THEN shown' = chars_read /\ next_update' = e + 1
    ELSE UNCHANGED <<shown, next_update>>

\* the filter of the polling loop on the decoded str char_data
CollectorAccepts(char_data) ==
  \/ (isdigit(char_data) /\ char_data # <<"0">>)
  \/ StrIn(upper(char_data), ABCDEFGHI)

CollectorAppends(char_data) ==
  IF isalpha(char_data) THEN upper(char_data) ELSE char_data

\* one iteration with ser.in_waiting = 0
LoopPollEmpty ==
  /\ pc = "loop"
  /\ \E dt \in 0..1 :
       /\ elapsed + dt < read_duration
       /\ elapsed' = elapsed + dt
       /\ UpdateProgress(elapsed + dt)
  /\ UNCHANGED <<entry, pc, args, ser_open, open_calls, received,
                 collected_data, chars_read, output_filename, result,
                 reported>>
  /\ UNCHANGED encoder_vars

\* one iteration with ser.in_waiting > 0: read(1), decode, filter
LoopReadByte ==
  /\ pc = "loop"
  /\ Len(received) < MaxBytes
  /\ \E dt \in 0..1, b \in Bytes :
       /\ elapsed + dt < read_duration
       /\ elapsed' = elapsed + dt
       /\ UpdateProgress(elapsed + dt)
       /\ received' = Append(received, b)
       /\ LET char_data == decode(b) IN
            IF CollectorAccepts(char_data)
              THEN /\ collected_data' =
                        collected_data \o CollectorAppends(char_data)
                   /\ chars_read' = chars_read + 1
              ELSE UNCHANGED <<collected_data, chars_read>>
  /\ UNCHANGED <<entry, pc, args, ser_open, open_calls, output_filename,
                 result, reported>>
  /\ UNCHANGED encoder_vars

\* one iteration in which ser.in_waiting or ser.read raises SerialException
LoopSerialException ==
  /\ pc = "loop"
  /\ \E dt \in 0..1 :
       /\ elapsed + dt < read_duration
       /\ elapsed' = elapsed + dt
       /\ UpdateProgress(elapsed + dt)
  /\ SerialExceptionHandler
  /\ UNCHANGED <<entry, args, ser_open, open_calls, received,
                 collected_data, chars_read, output_filename>>
  /\ UNCHANGED encoder_vars

\* the while condition is false: final progress report and ser.close()
LoopExit ==
  /\ pc = "loop"
  /\ \E dt \in 0..1 :
       /\ elapsed + dt >= read_duration
       /\ elapsed' = elapsed + dt
  /\ shown' = chars_read
  /\ ser_open' = FALSE
  /\ pc' = "collected"
  /\ UNCHANGED <<entry, args, open_calls, next_update, received,
                 collected_data, chars_read, output_filename, result,
                 reported>>
  /\ UNCHANGED encoder_vars

\* if not collected_data: return None
NoDataReceived ==
  /\ pc = "collected"
  /\ collected_data = <<>>
  /\ reported' = "nodata"
  /\ result' = None
  /\ pc' = "done"
  /\ UNCHANGED <<entry, args, output_filename>>
  /\ UNCHANGED collector_vars
  /\ UNCHANGED encoder_vars

\* output_filename is None: the save dialog; "" is a cancelled dialog
SaveDialog ==
  /\ pc = "collected"
  /\ collected_data # <<>>
  /\ \E name \in FileNames :
       /\ output_filename' = name
       /\ IF name = ""
            THEN reported' = "cancel" /\ result' = None /\ pc' = "done"
            ELSE pc' = "call" /\ UNCHANGED <<reported, result>>
  /\ UNCHANGED <<entry, args>>
  /\ UNCHANGED collector_vars
  /\ UNCHANGED encoder_vars

\* chars = convert_characters_to_midi(collected_data, output_filename)
CallConvert ==
  /\ pc = "call"
  /\ char_string' = collected_data
  /\ tempo' = DefaultTempo
  /\ instrument' = DefaultInstrument
  /\ convert_called' = TRUE
  /\ pc' = "convert"
  /\ UNCHANGED <<entry, args, output_filename, valid_chars, file, chars,
                 result, reported>>
  /\ UNCHANGED collector_vars

\* ------------------------------------------------------------------ Encoder
AfterConvert == IF entry = "cli" THEN "return" ELSE "done"

ConvertNoValid ==
  /\ pc = "convert"
  /\ valid_chars' = FilterChars(char_string)
  /\ valid_chars' = <<>>
  /\ reported' = "novalid"
  /\ chars' = None
  /\ pc' = AfterConvert
  /\ UNCHANGED <<entry, args, output_filename, char_string, tempo,
                 instrument, convert_called, file, result>>
  /\ UNCHANGED collector_vars

ConvertWrites ==
  /\ pc = "convert"
  /\ valid_chars' = FilterChars(char_string)
  /\ valid_chars' # <<>>
  /\ file' = [written |-> TRUE, name |-> output_filename,
              tempo |-> tempo, instrument |-> instrument,
              notes |-> AddNotes(valid_chars', 0)]
  /\ chars' = Some(valid_chars')
  /\ pc' = AfterConvert
  /\ UNCHANGED <<entry, args, output_filename, char_string, tempo,
                 instrument, convert_called, result, reported>>
  /\ UNCHANGED collector_vars

\* open(output_filename, "wb") raises OSError, which nothing catches
ConvertOpenFails ==
  /\ pc = "convert"
  /\ valid_chars' = FilterChars(char_string)
  /\ valid_chars' # <<>>
  /\ pc' = "raised"
  /\ UNCHANGED <<entry, args, output_filename, char_string, tempo,
                 instrument, convert_called, file, chars, result, reported>>
  /\ UNCHANGED collector_vars

\* if chars: open the folder; return chars
ReturnChars ==
  /\ pc = "return"
  /\ result' = chars
  /\ pc' = "done"
  /\ UNCHANGED <<entry, args, output_filename, reported>>
  /\ UNCHANGED collector_vars
  /\ UNCHANGED encoder_vars

Next ==
  \/ ParseArgs
  \/ OpenPort
  \/ OpenPortFails
  \/ ResetInputBuffer
  \/ LoopPollEmpty
  \/ LoopReadByte
  \/ LoopSerialException
  \/ LoopExit
  \/ NoDataReceived
  \/ SaveDialog
  \/ CallConvert
  \/ ConvertNoValid
  \/ ConvertWrites
  \/ ConvertOpenFails
  \/ ReturnChars

Spec == Init /\ [][Next]_vars

\* ------------------------------------------------------------- properties
Pitches(notes) == [i \in 1..Len(notes) |-> notes[i].pitch]
Starts(notes) == [i \in 1..Len(notes) |-> notes[i].start]

\* c is one of the 18 symbols, letters taken case-insensitively
AcceptedSymbol(c) ==
  /\ Len(upper(<<c>>)) = 1
  /\ upper(<<c>>)[1] \in DOMAIN note_mapping

HasAccepted(s) == \E i \in 1..Len(s) : AcceptedSymbol(s[i])

AcceptedByte(b) == decode(b) # <<>> /\ AcceptedSymbol(decode(b)[1])

\* C1: once read_from_serial_port has returned, the serial port it opened
\* is closed, on the normal path and on the transport-error path.
C1_PortClosedOnReturn ==
  (entry = "cli" /\ pc = "done") => ~ser_open

\* C2 (as stated): "hello123world" is filtered to "123" and gives exactly 3
\* notes, pitches [83, 82, 81] at beats [0, 0.5, 1.0].
C2_Hello123 ==
  (entry = "encoder" /\ pc = "done" /\ char_string = hello123world) =>
    /\ chars = Some(<<"1","2","3">>)
    /\ Pitches(file.notes) = <<83, 82, 81>>
    /\ Starts(file.notes) = <<0, 1, 2>>

\* C2 (amended): "hello123world" is filtered to "HE123D" (h, e and d lie in
\* A-I and are kept in upper case; l, o, w, r are dropped) and gives exactly
\* 6 notes, pitches [64, 67, 83, 82, 81, 69] at beats [0, 0.5, ..., 2.5].
C2_HelloHE123D ==
  (entry = "encoder" /\ pc = "done" /\ char_string = hello123world) =>
    /\ chars = Some(<<"H","E","1","2","3","D">>)
    /\ file.written
    /\ Pitches(file.notes) = <<64, 67, 83, 82, 81, 69>>
    /\ Starts(file.notes) = <<0, 1, 2, 3, 4, 5>>

C2_Witness ==
  /\ entry = "encoder" /\ pc = "done"
  /\ char_string = hello123world
  /\ Len(file.notes) = 6

\* C3: every character the Encoder's filter keeps is one of the 18 accepted
\* symbols, so the Pitch Table lookup succeeds for every kept character.
C3_KeptAreAccepted ==
  \A i \in 1..Len(valid_chars) : valid_chars[i] \in DOMAIN note_mapping

\* C4: when a file is written, the number of notes in it equals the length
\* of the filtered list the function returns.
C4_NoteCountIsFilteredLength ==
  file.written =>
    /\ ~chars.isNone
    /\ Len(file.notes) = Len(chars.val)

\* C5: in every artifact the first note starts at beat 0, each following
\* note starts 0.5 beat (one half beat) after the previous one, and every
\* note lasts 0.5 beat.
C5_NotesConsecutive ==
  file.written =>
    /\ Len(file.notes) > 0 => file.notes[1].start = 0
    /\ \A i \in 1..(Len(file.notes) - 1) :
         file.notes[i + 1].start = file.notes[i].start + 1
    /\ \A i \in 1..Len(file.notes) : file.notes[i].dur = 1

\* C6: an Encoder input with no accepted symbol gives the empty-input
\* failure, None, and no attempt to open or write the file; a Collector run
\* in which no accepted character arrived returns None without calling the
\* Encoder or writing a file.
C6_NoAcceptedNoFile ==
  /\ (entry = "encoder" /\ pc # "convert" /\ ~HasAccepted(char_string)) =>
       /\ pc = "done"
       /\ reported = "novalid"
       /\ chars = None
       /\ ~file.written
  /\ (entry = "cli" /\ pc = "done"
        /\ \A i \in 1..Len(received) : ~AcceptedByte(received[i])) =>
       /\ result = None
       /\ ~convert_called
       /\ ~file.written

\* C7: after a failed open or a transport error in the loop the run is
\* over: the error is reported, None is returned, the port is not opened a
\* second time, the Encoder is not called and no file is written, whatever
\* had been collected.
C7_TransportErrorAborts ==
  /\ open_calls <= 1
  /\ reported = "transport" =>
       /\ pc = "done"
       /\ result = None
       /\ ~convert_called
       /\ ~file.written

C7_Witness ==
  /\ reported = "transport"
  /\ pc = "done"
  /\ Len(collected_data) >= 2

\* C8: in a command-line run the written artifact carries the tempo and
\* the instrument given with --tempo and --instrument.
C8_CliValuesReachArtifact ==
  (entry = "cli" /\ file.written) =>
    /\ file.tempo = args.tempo
    /\ file.instrument = args.instrument

\* C9: filtering is idempotent: the list the Encoder's filter produced is
\* left unchanged by the filter, and so is everything the Collector has
\* accumulated, so that the Encoder called by the Collector drops nothing.
C9_FilterIdempotent ==
  /\ FilterChars(valid_chars) = valid_chars
  /\ FilterChars(collected_data) = collected_data
  /\ (entry = "encoder" /\ pc = "done") =>
       FilterChars(FilterChars(char_string)) = valid_chars
  /\ (entry = "cli" /\ pc \in {"return", "done"} /\ convert_called) =>
       valid_chars = collected_data

C9_Witness ==
  /\ entry = "cli" /\ pc = "done" /\ file.written
  /\ \E i \in 1..Len(received) : received[i] = 97
  /\ \E i \in 1..Len(received) : received[i] = 106
  /\ valid_chars = collected_data

\* C10: throughout the polling loop chars_read equals the number of
\* characters in collected_data; a byte that does not decode changes
\* neither.
C10_CountIsAccumulatedLength ==
  chars_read = Len(collected_data)
====
